---------------------------- MODULE Spec2Model ----------------------------
(***************************************************************************)
(* OneFantasy draft coordination: the snake-draft turn resolver, the       *)
(* application store's reducer, the mock draft simulator and the live      *)
(* draft room's personal queue.                                            *)
(*                                                                         *)
(* The module holds several state machines side by side.  The variable     *)
(* sys names the one a behaviour runs; every action is guarded by it and   *)
(* leaves the other machines' variables alone.                             *)
(***************************************************************************)
EXTENDS Integers, Sequences, FiniteSets

VARIABLES
    sys,                \* the component a behaviour exercises
    \* ---- turn resolver (pure functions applied to drawn inputs)
    trPick,             \* the pick number handed to the resolver
    trTeams,            \* the team count handed to the resolver
    trType,             \* the draft's draft_type
    trRoster,           \* the rounds of the draft: roster_size, DraftGrid's totalRounds
    trDone,             \* whether the resolver has been applied
    trMock,             \* MockDraftSimulator.getDraftOrder's result
    trStore,            \* selectors.getCurrentDraftTeam's team index
    trGrid,             \* the DraftGrid column that shows the pick
    \* ---- application store (store.ts, useReducer state)
    state,              \* AppState
    dispatched,         \* how many actions have been dispatched to the reducer
    \* ---- MockDraftSimulator (props and useState cells)
    league,             \* props.league: team count and settings.roster_size
    projected,          \* projectedPoints of each player, drawn at mount
    isActive,
    currentPick,
    currentTeamIndex,
    draftPicks,
    mockTeams,          \* team index -> draftedPlayers
    availablePlayers,   \* player id -> isAvailable
    userQueue,
    isAutoPicking,
    isDraftComplete,
    timers,             \* pending CPU auto-picks, each with the render it closed over
    \* ---- DraftRoom (useState cell) and the useDraftState hook it reads
    playerQueue,        \* DraftRoom's queue of player ids
    roomUser,           \* index of the local user's team in the team order
    roomPick,           \* the hook's currentPick
    roomAvailable,      \* ids of the hook's availablePlayers
    roomPicks,          \* the hook's draftPicks
    roomInFlight,       \* the pick request awaiting the server, or Null
    roomRequests,       \* every pick request sent to the server
    \* ---- the queue handlers of DraftRoom, called as functions
    queueSeen,          \* the playerQueue of the render whose closures are called
    \* ---- SocketService (socketService.ts)
    socket,             \* this.socket: Null, or the socket.io socket
    leaked,             \* the sockets connect() has replaced without closing them
    connected,          \* this.connected
    eventHandlers,      \* this.eventHandlers.get('draft_pick_made')
    lastDelivery,       \* the handlers the last push event was handed to, in order
    sockLog,            \* what has happened on the connection, in order
    \* ---- RosterDragDrop (Dashboard.tsx)
    lineup,             \* the lineup prop: starting_11, bench, captain, vice_captain
    locked,             \* the locked prop
    dragState,          \* dragState: Null, or the dragged player and its zone
    drops,              \* how many drops have been handled
    \* ---- observation
    lastOp              \* the handler that ran last, and the case it met

turnVars  == <<trPick, trTeams, trType, trRoster, trDone, trMock, trStore, trGrid>>
storeVars == <<state, dispatched>>
mockVars  == <<league, projected, isActive, currentPick, currentTeamIndex,
               draftPicks, mockTeams, availablePlayers, userQueue,
               isAutoPicking, isDraftComplete, timers>>
roomVars  == <<playerQueue, roomUser, roomPick, roomAvailable, roomPicks,
               roomInFlight, roomRequests>>
sockVars  == <<socket, leaked, connected, eventHandlers, lastDelivery, sockLog>>
rosterVars == <<lineup, locked, dragState, drops>>
vars == <<sys, turnVars, storeVars, mockVars, roomVars, queueSeen, sockVars,
          rosterVars, lastOp>>

(***************************************************************************)
(* Bounds of the model.                                                    *)
(***************************************************************************)
MaxTeams == 10
MaxPick == 21
MaxTurnRoster == 3
NumPlayers == 3
StoreTeams == 2
StoreRounds == 2
MaxDispatches == 5
MaxMockTeams == 2
MaxRosterSize == 2
MaxDraftPicks == 4
MaxTimers == 2
RoomTeams == 2
RoomRounds == 2
MaxRequests == 3
MaxQueueLen == 3
MaxHandlers == 2
MaxListeners == 3
MaxLeaked == 1
MaxSockLog == 6
MaxDrops == 2
MaxCaptainChoice == 3

Players == 1..NumPlayers

\* JavaScript null
Null == [null |-> TRUE]

(***************************************************************************)
(* JavaScript helpers.                                                     *)
(***************************************************************************)
\* Math.ceil(a / b) for integers a >= 0, b >= 1
CeilDiv(a, b) == (a + b - 1) \div b

\* the set of a sequence's elements
Range(s) == {s[i] : i \in 1..Len(s)}

(***************************************************************************)
(* Turn resolver.                                                          *)
(***************************************************************************)
\* a resolver that never reverses (the order of a linear draft)
getDraftOrderNoReversal(pick, totalTeams) == (pick - 1) % totalTeams

\* a resolver that always names the user's team
getDraftOrderUserAlways(pick, totalTeams) == 0

\* MockDraftSimulator.getDraftOrder(pick, totalTeams), totalTeams >= 1
getDraftOrder(pick, totalTeams) ==
    LET round == CeilDiv(pick, totalTeams)
        isEvenRound == round % 2 = 0
        positionInRound == ((pick - 1) % totalTeams) + 1
    IN  IF isEvenRound THEN totalTeams - positionInRound
        ELSE positionInRound - 1

\* the index selectors.getCurrentDraftTeam computes into currentLeague.teams
getCurrentDraftTeamIndex(pick, teamCount) ==
    LET round == CeilDiv(pick, teamCount)
        isSnake == round % 2 = 0
        positionInRound == (pick - 1) % teamCount
    IN  IF isSnake THEN teamCount - 1 - positionInRound
        ELSE positionInRound

\* what a JavaScript expression evaluates to: a number, NaN, null, or nothing
JsNumber(n) == [kind |-> "number", value |-> n]
JsNaN == [kind |-> "NaN", value |-> 0]
JsNull == [kind |-> "null", value |-> 0]
JsAbsent == [kind |-> "absent", value |-> 0]

\* getDraftOrder as JavaScript runs it.  With totalTeams = 0: pick / 0 is
\* Infinity, Infinity % 2 is NaN, NaN === 0 is false, (pick - 1) % 0 is NaN,
\* and NaN + 1 - 1 is NaN; nothing is thrown.
getDraftOrderJs(pick, totalTeams) ==
    IF totalTeams = 0 THEN JsNaN ELSE JsNumber(getDraftOrder(pick, totalTeams))

\* getCurrentDraftTeam as JavaScript runs it.  With no teams teamIndex is
\* NaN, teams[NaN] is undefined and `|| null` makes it null.
getCurrentDraftTeamJs(pick, teamCount) ==
    IF teamCount = 0 THEN JsNull
    ELSE IF getCurrentDraftTeamIndex(pick, teamCount) \in 0..(teamCount - 1)
    THEN JsNumber(getCurrentDraftTeamIndex(pick, teamCount))
    ELSE JsNull

\* a grid whose rows all run left to right
gridPickNumberLeftToRight(round, teamIndex, teamsLength, isSnakeDraft) ==
    (round - 1) * teamsLength + (teamIndex + 1)

\* DraftGrid: the pick number shown in row round, column teamIndex
gridPickNumber(round, teamIndex, teamsLength, isSnakeDraft) ==
    IF isSnakeDraft /\ round % 2 = 0
    THEN (round - 1) * teamsLength + (teamsLength - teamIndex)
    ELSE (round - 1) * teamsLength + (teamIndex + 1)

\* DraftGrid: the column in which gridData places a pick number.  The grid
\* has the rows 1..totalRounds and a column per team; a pick number that no
\* cell carries is placed nowhere
gridColumn(pick, teamsLength, totalRounds, isSnakeDraft) ==
    LET cells == {c \in (1..totalRounds) \X (0..(teamsLength - 1)) :
                     gridPickNumber(c[1], c[2], teamsLength, isSnakeDraft) = pick}
    IN  IF cells = {} THEN JsAbsent ELSE JsNumber((CHOOSE c \in cells : TRUE)[2])

\* the draft types a draft may carry; DraftRoom hands DraftGrid
\* isSnakeDraft = (draft.draft_type === 'snake')
DraftTypes == {"snake", "linear", "auction"}

InitTurnVars ==
    /\ trPick = 1 /\ trTeams = 1 /\ trType = "snake" /\ trRoster = 1
    /\ trDone = FALSE
    /\ trMock = JsAbsent /\ trStore = JsAbsent /\ trGrid = JsAbsent

\* an idle store, as createContext/useReducer build it
initialState ==
    [ draftState |-> Null, availablePlayers |-> <<>>,
      currentLeague |-> Null, userTeam |-> Null, error |-> Null ]

InitStoreVars == state = initialState /\ dispatched = 0

InitMockVars ==
    /\ league = [teams |-> 1, roster_size |-> 1]
    /\ projected = [p \in Players |-> p]
    /\ isActive = FALSE /\ currentPick = 1 /\ currentTeamIndex = 0
    /\ draftPicks = <<>> /\ mockTeams = [i \in 0..0 |-> <<>>]
    /\ availablePlayers = [p \in Players |-> TRUE]
    /\ userQueue = <<>> /\ isAutoPicking = FALSE /\ isDraftComplete = FALSE
    /\ timers = <<>>

InitRoomVars ==
    /\ queueSeen = <<>>
    /\ playerQueue = <<>> /\ roomUser = 0 /\ roomPick = 1
    /\ roomAvailable = Players /\ roomPicks = <<>>
    /\ roomInFlight = Null /\ roomRequests = <<>>

InitSockVars ==
    /\ socket = Null /\ leaked = <<>> /\ connected = FALSE
    /\ eventHandlers = <<>> /\ lastDelivery = <<>> /\ sockLog = <<>>

InitRosterVars ==
    /\ lineup = [starting_11 |-> <<>>, bench |-> <<>>, captain |-> 0, vice_captain |-> 0]
    /\ locked = FALSE /\ dragState = Null /\ drops = 0

InitTurn ==
    /\ sys = "turn"
    /\ trPick \in 1..MaxPick
    /\ trTeams \in 0..MaxTeams
    /\ trType \in DraftTypes
    /\ trRoster \in 1..MaxTurnRoster
    /\ trDone = FALSE
    /\ trMock = JsAbsent /\ trStore = JsAbsent /\ trGrid = JsAbsent
    /\ InitStoreVars
    /\ InitMockVars
    /\ InitRoomVars
    /\ InitSockVars
    /\ InitRosterVars
    /\ lastOp = "init"

\* the three resolvers are called with the drawn pick and team count
ResolveTurn ==
    /\ sys = "turn"
    /\ ~trDone
    /\ trMock' = getDraftOrderJs(trPick, trTeams)
    /\ trStore' = getCurrentDraftTeamJs(trPick, trTeams)
    /\ trGrid' = gridColumn(trPick, trTeams, trRoster, trType = "snake")
    /\ trDone' = TRUE
    /\ lastOp' = "resolve"
    /\ UNCHANGED <<sys, rosterVars, queueSeen, sockVars, trPick, trTeams, trType, trRoster,
                   storeVars, mockVars, roomVars>>

\* draftPlayer's closing branch: while currentPick < totalPicks the next pick
\* number and the team resolved for it are set in one batch, so no render
\* shows one without the other; at the last pick nothing advances.  With no
\* team mockTeams[teamIndex] is undefined and draftPlayer throws before it.
\* The selector and the grid are evaluated in the render that follows; that
\* render is MockDraftSimulator's, whose <DraftGrid> is handed
\* totalRounds = roster_size and no isSnakeDraft, so the grid numbers its
\* cells by its default (isSnakeDraft = true) whatever the draft type.
AdvanceTurn ==
    /\ sys = "turn"
    /\ trTeams >= 1
    /\ trPick < trTeams * trRoster
    /\ trPick' = trPick + 1
    /\ trMock' = getDraftOrderJs(trPick + 1, trTeams)
    /\ trStore' = getCurrentDraftTeamJs(trPick + 1, trTeams)
    /\ trGrid' = gridColumn(trPick + 1, trTeams, trRoster, TRUE)
    /\ trDone' = TRUE
    /\ lastOp' = "advance"
    /\ UNCHANGED <<sys, rosterVars, queueSeen, sockVars, trTeams, trType, trRoster,
                   storeVars, mockVars, roomVars>>

NextTurn == ResolveTurn \/ AdvanceTurn

SpecTurn == InitTurn /\ [][NextTurn]_vars


(***************************************************************************)
(* Application store: appReducer.                                          *)
(***************************************************************************)
TeamIds == 1..StoreTeams
\* the pick numbers ADD_DRAFT_PICK is fed: every pick of the draft and the
\* one after the last
StorePickNumbers == 1..(StoreTeams * StoreRounds + 1)

\* a team of the league with nothing on its roster
EmptyTeam(id) == [id |-> id, starters |-> <<>>]

\* the league payloads SET_CURRENT_LEAGUE is fed: a league of teams with
\* empty rosters, or null
LeaguePayloads ==
    { [teams |-> [i \in 1..n |-> EmptyTeam(i)]] : n \in {StoreTeams} } \cup {Null}

\* the team payloads SET_USER_TEAM is fed
UserTeamPayloads == {EmptyTeam(id) : id \in 1..StoreTeams} \cup {Null}

\* the queues a loaded draft state carries in queuedPlayers
QueuePayloads == {<<>>, <<2, 1>>}

\* the DraftState payloads SET_DRAFT_STATE is fed: a draft about to begin,
\* running or not, and one whose picks are all made
DraftStatePayloads ==
    { [ isActive |-> TRUE, currentPick |-> 1, currentRound |-> 1,
        isMyTurn |-> TRUE, availablePlayers |-> Players,
        draftBoard |-> [r \in 1..StoreRounds |-> <<>>],
        queuedPlayers |-> q ] : q \in QueuePayloads }
    \cup
    { [ isActive |-> FALSE, currentPick |-> k, currentRound |-> 1,
        isMyTurn |-> FALSE, availablePlayers |-> Players,
        draftBoard |-> [r \in 1..StoreRounds |-> <<>>],
        queuedPlayers |-> <<>> ] : k \in {1, StoreTeams * StoreRounds + 1} }

\* the player list a draft that has not begun is loaded with
AllPlayersPayload == [i \in 1..NumPlayers |-> [id |-> i, selected_by_percent |-> 0]]

\* the players UPDATE_PLAYER is fed
UpdatePlayerPayloads == {[id |-> i, selected_by_percent |-> v] : i \in Players, v \in {0, 1}}

\* the errors SET_ERROR is fed: a message, or null to clear it
ErrorPayloads == {[message |-> "failed"], Null}

\* the rosters UPDATE_TEAM_ROSTER is fed, as the ids of their players
RosterPayloads == {<<>>, <<1>>, <<2, 1>>}

\* state.currentLeague?.teams.length || 1
TeamLengthOrOne(st) ==
    IF st.currentLeague = Null THEN 1
    ELSE IF Len(st.currentLeague.teams) = 0 THEN 1
    ELSE Len(st.currentLeague.teams)

\* case 'SET_CURRENT_LEAGUE'
ReduceSetCurrentLeague(st, payload) == [st EXCEPT !.currentLeague = payload]

\* case 'SET_USER_TEAM'
ReduceSetUserTeam(st, payload) == [st EXCEPT !.userTeam = payload]

\* case 'SET_DRAFT_STATE'
ReduceSetDraftState(st, payload) == [st EXCEPT !.draftState = payload]

\* case 'SET_AVAILABLE_PLAYERS'
ReduceSetAvailablePlayers(st, payload) == [st EXCEPT !.availablePlayers = payload]

\* case 'UPDATE_PLAYER': the entry with the payload's id is replaced
ReduceUpdatePlayer(st, payload) ==
    [st EXCEPT !.availablePlayers =
        [i \in 1..Len(st.availablePlayers) |->
            IF st.availablePlayers[i].id = payload.id THEN payload
            ELSE st.availablePlayers[i]]]

\* case 'SET_ERROR'
ReduceSetError(st, payload) == [st EXCEPT !.error = payload]

\* case 'UPDATE_TEAM_ROSTER': the starters of the team become the roster's
\* ids, in the league and in userTeam when it is that team
ReduceUpdateTeamRoster(st, teamId, roster) ==
    [ st EXCEPT
        !.currentLeague =
            IF st.currentLeague = Null THEN Null
            ELSE [teams |->
                    [i \in 1..Len(st.currentLeague.teams) |->
                        IF st.currentLeague.teams[i].id = teamId
                        THEN [st.currentLeague.teams[i] EXCEPT !.starters = roster]
                        ELSE st.currentLeague.teams[i]]],
        !.userTeam =
            IF st.userTeam # Null /\ st.userTeam.id = teamId
            THEN [st.userTeam EXCEPT !.starters = roster]
            ELSE st.userTeam ]

\* availablePlayers of case 'ADD_DRAFT_PICK': the entry is kept, its
\* selected_by_percent raised by one
ReduceAvailable(avail, playerId) ==
    [i \in 1..Len(avail) |->
        IF avail[i].id = playerId
        THEN [avail[i] EXCEPT !.selected_by_percent = @ + 1]
        ELSE avail[i]]

\* draftState.currentPick of case 'ADD_DRAFT_PICK'
ReduceCurrentPick(current, pick) == pick + 1

\* draftState.draftBoard of case 'ADD_DRAFT_PICK'
ReduceDraftBoard(st, teamId, playerId, pick) ==
    LET currentRound == CeilDiv(pick, TeamLengthOrOne(st)) - 1
        board == st.draftState.draftBoard
    IN  [roundIndex \in 1..Len(board) |->
            IF roundIndex - 1 = currentRound
            THEN Append(board[roundIndex],
                        [ team_id |-> teamId, player_id |-> playerId,
                          round |-> currentRound + 1, pick_number |-> pick,
                          pick_in_round |-> ((pick - 1) % TeamLengthOrOne(st)) + 1 ])
            ELSE board[roundIndex]]

\* case 'ADD_DRAFT_PICK'
ReduceAddDraftPick(st, teamId, playerId, pick) ==
    [ st EXCEPT
        !.availablePlayers = ReduceAvailable(st.availablePlayers, playerId),
        !.currentLeague =
            IF st.currentLeague = Null THEN Null
            ELSE [teams |->
                    [i \in 1..Len(st.currentLeague.teams) |->
                        IF st.currentLeague.teams[i].id = teamId
                        THEN [st.currentLeague.teams[i] EXCEPT
                                !.starters = Append(@, playerId)]
                        ELSE st.currentLeague.teams[i]]],
        !.userTeam =
            IF st.userTeam # Null /\ st.userTeam.id = teamId
            THEN [st.userTeam EXCEPT !.starters = Append(@, playerId)]
            ELSE st.userTeam,
        !.draftState =
            IF st.draftState = Null THEN Null
            ELSE [ st.draftState EXCEPT
                     !.currentPick = ReduceCurrentPick(st.draftState.currentPick, pick),
                     !.draftBoard = ReduceDraftBoard(st, teamId, playerId, pick) ] ]

\* isPlayerAvailable(player, allPlayers)
isPlayerAvailable(playerId, allPlayers) ==
    \E i \in 1..Len(allPlayers) : allPlayers[i].id = playerId

\* selectors.getDraftedPlayers
getDraftedPlayers(st) ==
    SelectSeq(st.availablePlayers,
              LAMBDA p : ~isPlayerAvailable(p.id, st.availablePlayers))

\* every pick on the draft board, round after round
RECURSIVE FlattenBoard(_)
FlattenBoard(board) ==
    IF board = <<>> THEN <<>> ELSE Head(board) \o FlattenBoard(Tail(board))

StoreBoardPicks == IF state.draftState = Null THEN <<>>
                   ELSE FlattenBoard(state.draftState.draftBoard)

\* the ids in the store's availablePlayers
StoreAvailableIds == {state.availablePlayers[i].id : i \in 1..Len(state.availablePlayers)}

InitStore ==
    /\ sys = "store"
    /\ InitTurnVars
    /\ InitMockVars
    /\ InitRoomVars
    /\ InitSockVars
    /\ InitRosterVars
    /\ InitStoreVars
    /\ lastOp = "init"

\* dispatch(action): the reducer's result becomes the state
Dispatch(next, op) ==
    /\ sys = "store"
    /\ dispatched < MaxDispatches
    /\ state' = next
    /\ dispatched' = dispatched + 1
    /\ lastOp' = op
    /\ UNCHANGED <<sys, rosterVars, queueSeen, sockVars, turnVars, mockVars, roomVars>>

SetCurrentLeague ==
    \E payload \in LeaguePayloads :
        Dispatch(ReduceSetCurrentLeague(state, payload), "SET_CURRENT_LEAGUE")

SetUserTeam ==
    \E payload \in UserTeamPayloads :
        Dispatch(ReduceSetUserTeam(state, payload), "SET_USER_TEAM")

\* dispatch(actions.setDraftState(payload))
SetDraftStateTo(payload) ==
    Dispatch(ReduceSetDraftState(state, payload), "SET_DRAFT_STATE")

SetDraftState == \E payload \in DraftStatePayloads \cup {Null} : SetDraftStateTo(payload)

SetAvailablePlayers ==
    Dispatch(ReduceSetAvailablePlayers(state, AllPlayersPayload), "SET_AVAILABLE_PLAYERS")

UpdatePlayer ==
    \E payload \in UpdatePlayerPayloads :
        Dispatch(ReduceUpdatePlayer(state, payload), "UPDATE_PLAYER")

SetError ==
    \E payload \in ErrorPayloads :
        Dispatch(ReduceSetError(state, payload), "SET_ERROR")

UpdateTeamRoster ==
    \E teamId \in TeamIds, roster \in RosterPayloads :
        Dispatch(ReduceUpdateTeamRoster(state, teamId, roster), "UPDATE_TEAM_ROSTER")

\* dispatch(actions.addDraftPick(teamId, player, pick))
AddDraftPick(teamId, playerId, pick) ==
    Dispatch(ReduceAddDraftPick(state, teamId, playerId, pick),
             IF state.draftState = Null THEN "ADD_DRAFT_PICK:noDraft"
             ELSE IF pick = state.draftState.currentPick THEN "ADD_DRAFT_PICK:inOrder"
             ELSE "ADD_DRAFT_PICK:outOfOrder")

ResetState == Dispatch(initialState, "RESET_STATE")

NextStore ==
    \/ SetCurrentLeague
    \/ SetUserTeam
    \/ SetDraftState
    \/ SetAvailablePlayers
    \/ UpdatePlayer
    \/ SetError
    \/ UpdateTeamRoster
    \/ \E teamId \in TeamIds, playerId \in Players, pick \in StorePickNumbers :
          AddDraftPick(teamId, playerId, pick)
    \/ ResetState

SpecStore == InitStore /\ [][NextStore]_vars


(***************************************************************************)
(* MockDraftSimulator.                                                     *)
(*                                                                         *)
(* A handler run from the UI reads the cells of the latest render.  A      *)
(* callback handed to setTimeout keeps the render it was created in: what  *)
(* it reads directly (currentPick, availablePlayers, mockTeams) is that    *)
(* render's value, while an updater function (setDraftPicks(prev => ...),  *)
(* setUserQueue(prev => ...)) is applied to the cell's latest value.       *)
(***************************************************************************)
Positions == <<"GK", "DEF", "MID", "FWD">>

\* position_short of the players handed in as props.availablePlayers
PositionOf(p) == Positions[(((p - 1) \div 2) % 4) + 1]

\* the projectedPoints the mount effect may draw: ranks, never equal
ProjectionPayloads ==
    { [p \in Players |-> p], [p \in Players |-> NumPlayers + 1 - p] }

TeamCount == league.teams
TeamIndexes == 0..(TeamCount - 1)

\* what a render's closures read directly
CurrentRender ==
    [ currentPick |-> currentPick,
      availablePlayers |-> availablePlayers,
      mockTeams |-> mockTeams ]

\* currentTeamIndex === 0 && isActive && !isDraftComplete
isUserTurn == currentTeamIndex = 0 /\ isActive /\ ~isDraftComplete

\* players.filter(...).sort((a, b) => b.projectedPoints - a.projectedPoints)[0]
BestOf(S) == CHOOSE p \in S : \A q \in S : projected[p] >= projected[q]

\* how many of a team's draftedPlayers have a position
PositionCount(drafted, position) ==
    Cardinality({i \in 1..Len(drafted) : PositionOf(drafted[i]) = position})

\* the first premium position the loop of autoPickForCPU settles on (0: none)
RECURSIVE FirstPremium(_, _, _)
FirstPremium(i, avail, drafted) ==
    IF i > Len(Positions) THEN 0
    ELSE IF /\ {p \in avail : PositionOf(p) = Positions[i]} # {}
            /\ PositionCount(drafted, Positions[i]) < 2
         THEN i
         ELSE FirstPremium(i + 1, avail, drafted)

\* selectedPlayer of autoPickForCPU, read from the render r (0: null)
SelectedPlayer(r, teamIndex) ==
    LET avail == {p \in Players : r.availablePlayers[p]}
        drafted == r.mockTeams[teamIndex]
        premium == IF r.currentPick <= TeamCount * 3
                   THEN FirstPremium(1, avail, drafted) ELSE 0
    IN  IF premium # 0 THEN BestOf({p \in avail : PositionOf(p) = Positions[premium]})
        ELSE IF avail # {} THEN BestOf(avail)
        ELSE 0

\* array.filter(p => p.id !== playerId)
WithoutPlayer(queue, playerId) == SelectSeq(queue, LAMBDA q : q # playerId)

\* setUserQueue(prev => prev.filter(p => p.id !== player.id))
PurgeQueue(queue, playerId) == WithoutPlayer(queue, playerId)

\* availablePlayers.map(p => p.id === player.id ? {...p, isAvailable: false} : p)
MarkUnavailable(players, playerId) == [players EXCEPT ![playerId] = FALSE]

\* a completion test that ends the draft one pick early
DraftIsOverEarly(pick, totalPicks) == pick + 1 >= totalPicks

\* if (currentPick >= totalPicks), the completion test of draftPlayer
DraftIsOver(pick, totalPicks) == pick >= totalPicks

\* draftPlayer(player, teamIndex) run in a closure of render r
draftPlayer(r, playerId, teamIndex) ==
    LET pick == [ pick_number |-> r.currentPick,
                  team_id |-> teamIndex,
                  player_id |-> playerId,
                  round |-> CeilDiv(r.currentPick, TeamCount),
                  is_auto_pick |-> teamIndex # 0 ]
        totalPicks == TeamCount * league.roster_size
        nextPick == r.currentPick + 1
        nextTeamIndex == getDraftOrder(nextPick, TeamCount)
    IN  /\ draftPicks' = Append(draftPicks, pick)
        /\ mockTeams' = [r.mockTeams EXCEPT ![teamIndex] = Append(@, playerId)]
        /\ availablePlayers' = MarkUnavailable(r.availablePlayers, playerId)
        /\ userQueue' = PurgeQueue(userQueue, playerId)
        /\ IF DraftIsOver(r.currentPick, totalPicks)
           THEN /\ isDraftComplete' = TRUE
                /\ isActive' = FALSE
                /\ UNCHANGED <<currentPick, currentTeamIndex>>
           ELSE /\ currentPick' = nextPick
                /\ currentTeamIndex' = nextTeamIndex
                /\ UNCHANGED <<isDraftComplete, isActive>>

\* the timer draftPlayer leaves behind: setTimeout(() => autoPickForCPU(next), 1000)
ScheduledBy(r) ==
    LET totalPicks == TeamCount * league.roster_size
        nextTeamIndex == getDraftOrder(r.currentPick + 1, TeamCount)
    IN  IF ~DraftIsOver(r.currentPick, totalPicks) /\ nextTeamIndex # 0
        THEN <<[stage |-> "scheduled", teamIndex |-> nextTeamIndex, render |-> r]>>
        ELSE <<>>

RemoveAt(seq, i) == [j \in 1..(Len(seq) - 1) |-> IF j < i THEN seq[j] ELSE seq[j + 1]]

InitMock ==
    /\ sys = "mock"
    /\ InitTurnVars
    /\ InitStoreVars
    /\ InitRoomVars
    /\ InitSockVars
    /\ InitRosterVars
    /\ league \in [teams : 1..MaxMockTeams, roster_size : 1..MaxRosterSize]
    /\ projected \in ProjectionPayloads
    /\ isActive = FALSE /\ currentPick = 1 /\ currentTeamIndex = 0
    /\ draftPicks = <<>>
    /\ mockTeams = [i \in 0..(league.teams - 1) |-> <<>>]
    /\ availablePlayers = [p \in Players |-> TRUE]
    /\ userQueue = <<>> /\ isAutoPicking = FALSE /\ isDraftComplete = FALSE
    /\ timers = <<>>
    /\ lastOp = "init"

\* startMockDraft, offered while !isActive && !isDraftComplete
StartMockDraft ==
    /\ sys = "mock"
    /\ ~isActive /\ ~isDraftComplete
    /\ isActive' = TRUE
    /\ currentPick' = 1
    /\ currentTeamIndex' = 0
    /\ draftPicks' = <<>>
    /\ isDraftComplete' = FALSE
    /\ mockTeams' = [i \in DOMAIN mockTeams |-> <<>>]
    /\ availablePlayers' = [p \in Players |-> TRUE]
    /\ lastOp' = "startMockDraft"
    /\ UNCHANGED <<sys, rosterVars, queueSeen, sockVars, turnVars, storeVars, roomVars, league, projected, userQueue,
                   isAutoPicking, timers>>

\* resetMockDraft, offered while isActive
ResetMockDraft ==
    /\ sys = "mock"
    /\ isActive
    /\ isActive' = FALSE
    /\ currentPick' = 1
    /\ currentTeamIndex' = 0
    /\ draftPicks' = <<>>
    /\ userQueue' = <<>>
    /\ isDraftComplete' = FALSE
    /\ isAutoPicking' = FALSE
    /\ mockTeams' = [i \in DOMAIN mockTeams |-> <<>>]
    /\ availablePlayers' = [p \in Players |-> TRUE]
    /\ lastOp' = "resetMockDraft"
    /\ UNCHANGED <<sys, rosterVars, queueSeen, sockVars, turnVars, storeVars, roomVars, league, projected, timers>>

\* a handleUserDraftPick that only looks at isActive
UserPickRefusedWhenIdle == ~isActive

\* if (!isActive || currentTeamIndex !== 0 || isAutoPicking) return
UserPickRefused == ~isActive \/ currentTeamIndex # 0 \/ isAutoPicking

\* handleUserDraftPick(player), from the Draft button of a listed player
HandleUserDraftPick(playerId, op) ==
    IF UserPickRefused
    THEN /\ lastOp' = op \o ":rejected"
         /\ UNCHANGED <<sys, rosterVars, queueSeen, sockVars, turnVars, storeVars, mockVars, roomVars>>
    ELSE /\ Len(draftPicks) < MaxDraftPicks
         /\ Len(timers) + Len(ScheduledBy(CurrentRender)) <= MaxTimers
         /\ draftPlayer(CurrentRender, playerId, 0)
         /\ timers' = timers \o ScheduledBy(CurrentRender)
         /\ lastOp' = op \o ":drafted"
         /\ UNCHANGED <<sys, rosterVars, queueSeen, sockVars, turnVars, storeVars, roomVars, league, projected, isAutoPicking>>

\* the Draft button of a player in the list (shown while isActive)
UserDraftPick(playerId) ==
    /\ sys = "mock"
    /\ isActive /\ availablePlayers[playerId]
    /\ HandleUserDraftPick(playerId, "handleUserDraftPick")

\* addToQueue(player), from the + button of a listed player
AddToQueue(playerId) ==
    /\ sys = "mock"
    /\ isActive /\ availablePlayers[playerId]
    /\ userQueue' = IF playerId \in Range(userQueue) THEN userQueue
                    ELSE Append(userQueue, playerId)
    /\ lastOp' = "addToQueue"
    /\ UNCHANGED <<sys, rosterVars, queueSeen, sockVars, turnVars, storeVars, roomVars, league, projected, isActive,
                   currentPick, currentTeamIndex, draftPicks, mockTeams,
                   availablePlayers, isAutoPicking, isDraftComplete, timers>>

\* removeFromQueue(playerId), from the x button of a queue entry
RemoveFromQueue(playerId) ==
    /\ sys = "mock"
    /\ isActive /\ playerId \in Range(userQueue)
    /\ userQueue' = WithoutPlayer(userQueue, playerId)
    /\ lastOp' = "removeFromQueue"
    /\ UNCHANGED <<sys, rosterVars, queueSeen, sockVars, turnVars, storeVars, roomVars, league, projected, isActive,
                   currentPick, currentTeamIndex, draftPicks, mockTeams,
                   availablePlayers, isAutoPicking, isDraftComplete, timers>>

\* autoPickFromQueue, from "Pick Next in Queue" (disabled unless isUserTurn)
AutoPickFromQueue ==
    /\ sys = "mock"
    /\ isActive /\ Len(userQueue) > 0 /\ isUserTurn
    /\ IF Len(userQueue) > 0 /\ currentTeamIndex = 0
       THEN HandleUserDraftPick(userQueue[1], "autoPickFromQueue")
       ELSE /\ lastOp' = "autoPickFromQueue:rejected"
            /\ UNCHANGED <<sys, rosterVars, queueSeen, sockVars, turnVars, storeVars, mockVars, roomVars>>

\* a timeout of draftPlayer expires: autoPickForCPU runs up to its await
CpuTimerFires(i) ==
    /\ sys = "mock"
    /\ i \in 1..Len(timers)
    /\ timers[i].stage = "scheduled"
    /\ isAutoPicking' = TRUE
    /\ timers' = [timers EXCEPT ![i].stage = "waiting"]
    /\ lastOp' = "autoPickForCPU:started"
    /\ UNCHANGED <<sys, rosterVars, queueSeen, sockVars, turnVars, storeVars, roomVars, league, projected, isActive,
                   currentPick, currentTeamIndex, draftPicks, mockTeams,
                   availablePlayers, userQueue, isDraftComplete>>

\* autoPickDelay has passed: autoPickForCPU resumes after its await
CpuPicks(i) ==
    /\ sys = "mock"
    /\ i \in 1..Len(timers)
    /\ timers[i].stage = "waiting"
    /\ LET r == timers[i].render
           teamIndex == timers[i].teamIndex
           selectedPlayer == SelectedPlayer(r, teamIndex)
       IN  IF selectedPlayer # 0
           THEN /\ Len(draftPicks) < MaxDraftPicks
                /\ draftPlayer(r, selectedPlayer, teamIndex)
                /\ timers' = RemoveAt(timers, i) \o ScheduledBy(r)
                /\ lastOp' = "autoPickForCPU:drafted"
           ELSE /\ timers' = RemoveAt(timers, i)
                /\ lastOp' = "autoPickForCPU:nobody"
                /\ UNCHANGED <<isActive, currentPick, currentTeamIndex, draftPicks,
                               mockTeams, availablePlayers, userQueue, isDraftComplete>>
    /\ isAutoPicking' = FALSE
    /\ UNCHANGED <<sys, rosterVars, queueSeen, sockVars, turnVars, storeVars, roomVars, league, projected>>

NextMock ==
    \/ StartMockDraft
    \/ ResetMockDraft
    \/ \E playerId \in Players : UserDraftPick(playerId)
    \/ \E playerId \in Players : AddToQueue(playerId)
    \/ \E playerId \in Players : RemoveFromQueue(playerId)
    \/ AutoPickFromQueue
    \/ \E i \in 1..MaxTimers : CpuTimerFires(i)
    \/ \E i \in 1..MaxTimers : CpuPicks(i)

Spec == InitMock /\ [][NextMock]_vars

\* the record draftPlayer appends for a pick made in a closure of render r
draftPickOf(r, playerId, teamIndex) ==
    [ pick_number |-> r.currentPick,
      team_id |-> teamIndex,
      player_id |-> playerId,
      round |-> CeilDiv(r.currentPick, TeamCount),
      is_auto_pick |-> teamIndex # 0 ]

\* draftPlayer(first, teamIndex) and then draftPlayer(second, teamIndex), both
\* run in closures of the one render r.  The updater functions of
\* setDraftPicks and setUserQueue are applied one after the other; the
\* values handed to setMockTeams, setAvailablePlayers, setCurrentPick and
\* setCurrentTeamIndex are computed from r by both calls, and the later
\* call's value is the one the next render shows.
draftPlayerTwice(r, first, second, teamIndex) ==
    LET totalPicks == TeamCount * league.roster_size
        nextPick == r.currentPick + 1
        nextTeamIndex == getDraftOrder(nextPick, TeamCount)
    IN  /\ draftPicks' = draftPicks \o <<draftPickOf(r, first, teamIndex),
                                         draftPickOf(r, second, teamIndex)>>
        /\ mockTeams' = [r.mockTeams EXCEPT ![teamIndex] = Append(@, second)]
        /\ availablePlayers' = MarkUnavailable(r.availablePlayers, second)
        /\ userQueue' = PurgeQueue(PurgeQueue(userQueue, first), second)
        /\ IF DraftIsOver(r.currentPick, totalPicks)
           THEN /\ isDraftComplete' = TRUE
                /\ isActive' = FALSE
                /\ UNCHANGED <<currentPick, currentTeamIndex>>
           ELSE /\ currentPick' = nextPick
                /\ currentTeamIndex' = nextTeamIndex
                /\ UNCHANGED <<isDraftComplete, isActive>>

\* handleUserDraftPick(player) called as a function with any player of
\* props.availablePlayers, listed or not
CallHandleUserDraftPick(playerId) ==
    /\ sys = "mock"
    /\ HandleUserDraftPick(playerId, "handleUserDraftPick")

\* handleUserDraftPick(first) and handleUserDraftPick(second) called one
\* after the other before the component renders again: both calls read the
\* isActive, currentTeamIndex and isAutoPicking of the same render
CallHandleUserDraftPickTwice(first, second) ==
    /\ sys = "mock"
    /\ IF UserPickRefused
       THEN /\ lastOp' = "handleUserDraftPick:rejected"
            /\ UNCHANGED <<sys, rosterVars, queueSeen, sockVars, turnVars, storeVars, mockVars, roomVars>>
       ELSE /\ Len(draftPicks) + 2 <= MaxDraftPicks
            /\ Len(timers) + 2 * Len(ScheduledBy(CurrentRender)) <= MaxTimers
            /\ draftPlayerTwice(CurrentRender, first, second, 0)
            /\ timers' = timers \o ScheduledBy(CurrentRender) \o ScheduledBy(CurrentRender)
            /\ lastOp' = "handleUserDraftPick:draftedTwice"
            /\ UNCHANGED <<sys, rosterVars, queueSeen, sockVars, turnVars, storeVars, roomVars, league, projected, isAutoPicking>>

\* the mock draft with its pick handler also called as a function
NextSubmit ==
    \/ NextMock
    \/ \E playerId \in Players : CallHandleUserDraftPick(playerId)
    \/ \E first, second \in Players : CallHandleUserDraftPickTwice(first, second)

SpecSubmit == InitMock /\ [][NextSubmit]_vars


(***************************************************************************)
(* DraftRoom.  The queue is a useState cell of the page; the draft itself  *)
(* (currentPick, availablePlayers, isMyTurn, makePick) comes from the      *)
(* useDraftState hook, which is handed only the draft id and the user id.  *)
(***************************************************************************)
RoomTotalPicks == RoomTeams * RoomRounds

\* isMyTurn of useDraftState: derived from the current pick
isMyTurn ==
    /\ roomPick <= RoomTotalPicks
    /\ getDraftOrder(roomPick, RoomTeams) = roomUser

\* what makePick(playerId) of useDraftState answers on the local user's turn
makePickOutcome(playerId) ==
    IF playerId \notin roomAvailable THEN "unavailable"
    ELSE IF roomInFlight # Null THEN "inFlight"
    ELSE "sent"

\* the hook applies a pick-made event for the current pick
applyPickMade(playerId, teamIndex) ==
    /\ roomPicks' = Append(roomPicks, [ pick_number |-> roomPick,
                                        team_id |-> teamIndex,
                                        player_id |-> playerId ])
    /\ roomAvailable' = roomAvailable \ {playerId}
    /\ roomPick' = roomPick + 1

\* addToQueue: if (!playerQueue.includes(playerId)) setPlayerQueue(prev => [...prev, playerId])
RoomQueueAdd(queue, playerId) ==
    IF playerId \in Range(queue) THEN queue ELSE Append(queue, playerId)

\* removeFromQueue: setPlayerQueue(prev => prev.filter(id => id !== playerId))
RoomQueueRemove(queue, playerId) == WithoutPlayer(queue, playerId)

\* prev.indexOf(playerId), 1-based here (0: not found)
IndexOf(queue, playerId) ==
    IF playerId \in Range(queue)
    THEN CHOOSE i \in 1..Len(queue) :
            queue[i] = playerId /\ \A j \in 1..(i - 1) : queue[j] # playerId
    ELSE 0

\* a moveInQueue that never swaps
RoomQueueMoveNowhere(queue, playerId, direction) == queue

\* moveInQueue(playerId, direction)
RoomQueueMove(queue, playerId, direction) ==
    LET index == IndexOf(queue, playerId)
    IN  IF index = 0 THEN queue
        ELSE IF direction = "up" /\ index > 1
        THEN [queue EXCEPT ![index - 1] = queue[index], ![index] = queue[index - 1]]
        ELSE IF direction = "down" /\ index < Len(queue)
        THEN [queue EXCEPT ![index] = queue[index + 1], ![index + 1] = queue[index]]
        ELSE queue

InitRoom ==
    /\ sys = "room"
    /\ queueSeen = <<>>
    /\ InitSockVars
    /\ InitRosterVars
    /\ InitTurnVars
    /\ InitStoreVars
    /\ InitMockVars
    /\ playerQueue = <<>>
    /\ roomUser \in 0..(RoomTeams - 1)
    /\ roomPick = 1
    /\ roomAvailable = Players
    /\ roomPicks = <<>>
    /\ roomInFlight = Null
    /\ roomRequests = <<>>
    /\ lastOp = "init"

\* a player card while it is not the user's turn: onDraft is addToQueue
RoomAddToQueue(playerId) ==
    /\ sys = "room"
    /\ ~isMyTurn /\ playerId \in roomAvailable
    /\ playerQueue' = RoomQueueAdd(playerQueue, playerId)
    /\ lastOp' = "addToQueue"
    /\ UNCHANGED <<sys, rosterVars, queueSeen, sockVars, turnVars, storeVars, mockVars, roomUser, roomPick,
                   roomAvailable, roomPicks, roomInFlight, roomRequests>>

\* the remove button of a queue entry (drawn only for an available player)
RoomRemoveFromQueue(playerId) ==
    /\ sys = "room"
    /\ playerId \in Range(playerQueue) /\ playerId \in roomAvailable
    /\ playerQueue' = RoomQueueRemove(playerQueue, playerId)
    /\ lastOp' = "removeFromQueue"
    /\ UNCHANGED <<sys, rosterVars, queueSeen, sockVars, turnVars, storeVars, mockVars, roomUser, roomPick,
                   roomAvailable, roomPicks, roomInFlight, roomRequests>>

\* the up and down buttons of a queue entry
RoomMoveInQueue(playerId, direction) ==
    /\ sys = "room"
    /\ playerId \in Range(playerQueue) /\ playerId \in roomAvailable
    /\ playerQueue' = RoomQueueMove(playerQueue, playerId, direction)
    /\ lastOp' = "moveInQueue"
    /\ UNCHANGED <<sys, rosterVars, queueSeen, sockVars, turnVars, storeVars, mockVars, roomUser, roomPick,
                   roomAvailable, roomPicks, roomInFlight, roomRequests>>

\* handleMakePick(playerId) up to its await
HandleMakePick(playerId, op) ==
    IF ~isMyTurn
    THEN /\ lastOp' = op \o ":notMyTurn"
         /\ UNCHANGED <<sys, rosterVars, queueSeen, sockVars, turnVars, storeVars, mockVars, roomVars>>
    ELSE IF makePickOutcome(playerId) = "sent"
    THEN /\ Len(roomRequests) < MaxRequests
         /\ roomInFlight' = [player |-> playerId, pick |-> roomPick, applied |-> FALSE]
         /\ roomRequests' = Append(roomRequests, [player |-> playerId, pick |-> roomPick,
                                                   failed |-> FALSE])
         /\ lastOp' = op \o ":sent"
         /\ UNCHANGED <<sys, rosterVars, queueSeen, sockVars, turnVars, storeVars, mockVars, playerQueue, roomUser,
                        roomPick, roomAvailable, roomPicks>>
    ELSE /\ lastOp' = op \o ":" \o makePickOutcome(playerId)
         /\ UNCHANGED <<sys, rosterVars, queueSeen, sockVars, turnVars, storeVars, mockVars, roomVars>>

\* a player card on the user's turn: onDraft is handleMakePick
RoomMakePick(playerId) ==
    /\ sys = "room"
    /\ isMyTurn /\ playerId \in roomAvailable
    /\ HandleMakePick(playerId, "handleMakePick")

\* pickFromQueue, from "Pick from Queue" (drawn on the user's turn)
RoomPickFromQueue ==
    /\ sys = "room"
    /\ isMyTurn /\ Len(playerQueue) > 0
    /\ IF Len(playerQueue) = 0 \/ ~isMyTurn
       THEN /\ lastOp' = "pickFromQueue:rejected"
            /\ UNCHANGED <<sys, rosterVars, queueSeen, sockVars, turnVars, storeVars, mockVars, roomVars>>
       ELSE HandleMakePick(playerQueue[1], "pickFromQueue")

\* the server broadcasts the pick the local user asked for
RoomOwnPickMade ==
    /\ sys = "room"
    /\ roomInFlight # Null /\ ~roomInFlight.applied
    /\ applyPickMade(roomInFlight.player, roomUser)
    /\ roomInFlight' = [roomInFlight EXCEPT !.applied = TRUE]
    /\ lastOp' = "pickMade:own"
    /\ UNCHANGED <<sys, rosterVars, queueSeen, sockVars, turnVars, storeVars, mockVars, playerQueue, roomUser,
                   roomRequests>>

\* makePick resolves true: handleMakePick goes on to removeFromQueue(playerId)
RoomMakePickSucceeds ==
    /\ sys = "room"
    /\ roomInFlight # Null /\ roomInFlight.applied
    /\ playerQueue' = RoomQueueRemove(playerQueue, roomInFlight.player)
    /\ roomInFlight' = Null
    /\ lastOp' = "makePick:true"
    /\ UNCHANGED <<sys, rosterVars, queueSeen, sockVars, turnVars, storeVars, mockVars, roomUser, roomPick,
                   roomAvailable, roomPicks, roomRequests>>

\* makePick resolves false: the request failed, nothing is removed
RoomMakePickFails ==
    /\ sys = "room"
    /\ roomInFlight # Null /\ ~roomInFlight.applied
    /\ roomInFlight' = Null
    /\ roomRequests' = [roomRequests EXCEPT ![Len(roomRequests)].failed = TRUE]
    /\ lastOp' = "makePick:false"
    /\ UNCHANGED <<sys, rosterVars, queueSeen, sockVars, turnVars, storeVars, mockVars, playerQueue, roomUser,
                   roomPick, roomAvailable, roomPicks>>

\* the server broadcasts a pick of the team on the clock, another team
RoomOtherPickMade(playerId) ==
    /\ sys = "room"
    /\ roomPick <= RoomTotalPicks /\ ~isMyTurn
    /\ playerId \in roomAvailable
    /\ applyPickMade(playerId, getDraftOrder(roomPick, RoomTeams))
    /\ lastOp' = "pickMade:other"
    /\ UNCHANGED <<sys, rosterVars, queueSeen, sockVars, turnVars, storeVars, mockVars, playerQueue, roomUser,
                   roomInFlight, roomRequests>>

NextRoom ==
    \/ \E playerId \in Players : RoomAddToQueue(playerId)
    \/ \E playerId \in Players : RoomRemoveFromQueue(playerId)
    \/ \E playerId \in Players, direction \in {"up", "down"} :
          RoomMoveInQueue(playerId, direction)
    \/ \E playerId \in Players : RoomMakePick(playerId)
    \/ RoomPickFromQueue
    \/ RoomOwnPickMade
    \/ RoomMakePickSucceeds
    \/ RoomMakePickFails
    \/ \E playerId \in Players : RoomOtherPickMade(playerId)

SpecRoom == InitRoom /\ [][NextRoom]_vars

\* the two draft screens side by side
InitDraft == InitMock \/ InitRoom

NextDraft == NextMock \/ NextRoom

SpecDraft == InitDraft /\ [][NextDraft]_vars


(***************************************************************************)
(* DraftRoom's queue handlers as functions.  addToQueue tests the          *)
(* playerQueue of the render it was created in and hands React an updater; *)
(* removeFromQueue and moveInQueue only hand React an updater, which runs  *)
(* on the latest queue.                                                    *)
(***************************************************************************)
\* addToQueue(playerId) of a render that saw the queue seen, applied to prev
addToQueueFrom(seen, prev, playerId) ==
    IF playerId \in Range(seen) THEN prev ELSE Append(prev, playerId)

InitQueue ==
    /\ sys = "queue"
    /\ InitTurnVars
    /\ InitStoreVars
    /\ InitMockVars
    /\ InitRoomVars
    /\ InitSockVars
    /\ InitRosterVars
    /\ lastOp = "init"

\* addToQueue(playerId), called on the closures of the render last made
QueueAdd(playerId) ==
    /\ sys = "queue"
    /\ Len(playerQueue) < MaxQueueLen
    /\ playerQueue' = addToQueueFrom(queueSeen, playerQueue, playerId)
    /\ lastOp' = IF playerId \in Range(queueSeen) THEN "addToQueue:present"
                 ELSE "addToQueue:appended"
    /\ UNCHANGED <<sys, rosterVars, queueSeen, sockVars, turnVars, storeVars, mockVars, roomUser,
                   roomPick, roomAvailable, roomPicks, roomInFlight, roomRequests>>

\* removeFromQueue(playerId)
QueueRemove(playerId) ==
    /\ sys = "queue"
    /\ playerQueue' = RoomQueueRemove(playerQueue, playerId)
    /\ lastOp' = "removeFromQueue"
    /\ UNCHANGED <<sys, rosterVars, queueSeen, sockVars, turnVars, storeVars, mockVars, roomUser,
                   roomPick, roomAvailable, roomPicks, roomInFlight, roomRequests>>

\* moveInQueue(playerId, direction)
QueueMove(playerId, direction) ==
    /\ sys = "queue"
    /\ playerQueue' = RoomQueueMove(playerQueue, playerId, direction)
    /\ lastOp' = "moveInQueue"
    /\ UNCHANGED <<sys, rosterVars, queueSeen, sockVars, turnVars, storeVars, mockVars, roomUser,
                   roomPick, roomAvailable, roomPicks, roomInFlight, roomRequests>>

\* React renders DraftRoom again: new closures over the latest queue
QueueRender ==
    /\ sys = "queue"
    /\ queueSeen # playerQueue
    /\ queueSeen' = playerQueue
    /\ lastOp' = "render"
    /\ UNCHANGED <<sys, rosterVars, sockVars, turnVars, storeVars, mockVars, roomVars>>

NextQueue ==
    \/ \E playerId \in Players : QueueAdd(playerId)
    \/ \E playerId \in Players : QueueRemove(playerId)
    \/ \E playerId \in Players, direction \in {"up", "down"} :
          QueueMove(playerId, direction)
    \/ QueueRender

SpecQueue == InitQueue /\ [][NextQueue]_vars


(***************************************************************************)
(* SocketService.  The socket.io socket is a record: whether its transport *)
(* is up, and how many listeners socket.on('draft_pick_made', ...) has     *)
(* added to it.                                                            *)
(***************************************************************************)
\* the application handlers on() is called with: one that returns, one that
\* removes itself, one that throws
Handlers == {1, 2, 3}

\* what an application handler does when it is called: handler 2 calls
\* off(event, itself), handler 3 throws, every other handler just returns
HandlerKind(handler) ==
    IF handler = 2 THEN "removesItself"
    ELSE IF handler = 3 THEN "throws"
    ELSE "returns"

\* handlers.splice(handlers.indexOf(handler), 1)
SpliceHandler(handlers, handler) ==
    IF handler \notin Range(handlers) THEN handlers
    ELSE LET index == CHOOSE i \in 1..Len(handlers) :
                         handlers[i] = handler /\ \A j \in 1..(i - 1) : handlers[j] # handler
         IN  [j \in 1..(Len(handlers) - 1) |->
                 IF j < index THEN handlers[j] ELSE handlers[j + 1]]

\* handlers.forEach(handler => { try { handler(data) } catch { ... } }) from
\* index k on: forEach visits the indexes below the length the array had
\* when it began and reads the array itself at each, so an entry that a
\* splice has moved below k is not visited; a throw is caught
RECURSIVE ForEachHandler(_, _, _, _)
ForEachHandler(k, len, handlers, calls) ==
    IF k > len THEN [calls |-> calls, handlers |-> handlers]
    ELSE IF k > Len(handlers) THEN ForEachHandler(k + 1, len, handlers, calls)
    ELSE ForEachHandler(k + 1, len,
                        IF HandlerKind(handlers[k]) = "removesItself"
                        THEN SpliceHandler(handlers, handlers[k])
                        ELSE handlers,
                        Append(calls, handlers[k]))

\* one dispatch of emit: the calls it makes and the array it leaves
EmitOnce(handlers) == ForEachHandler(1, Len(handlers), handlers, <<>>)

\* the calls made when every listener of the socket runs emit(event, data)
RECURSIVE EmitByListeners(_, _)
EmitByListeners(listeners, handlers) ==
    IF listeners = 0 THEN [calls |-> <<>>, handlers |-> handlers]
    ELSE LET first == EmitOnce(handlers)
             rest == EmitByListeners(listeners - 1, first.handlers)
         IN  [calls |-> first.calls \o rest.calls, handlers |-> rest.handlers]

\* the log with one more entry
Logged(entry) == Append(sockLog, entry)

InitSocket ==
    /\ sys = "socket"
    /\ InitTurnVars
    /\ InitStoreVars
    /\ InitMockVars
    /\ InitRoomVars
    /\ InitSockVars
    /\ InitRosterVars
    /\ lastOp = "init"

\* the sockets that are alive: 0 is this.socket, i >= 1 is leaked[i]
SocketIds == 0..MaxLeaked

SocketAlive(s) == IF s = 0 THEN socket # Null ELSE s <= Len(leaked)

SocketAt(s) == IF s = 0 THEN socket ELSE leaked[s]

\* io(socketUrl, options): a socket with no transport and no listener yet
NewSocket == [up |-> FALSE, listeners |-> 0, everUp |-> FALSE]

\* connect(authToken): nothing is done when a socket exists and connected is
\* true; otherwise io() makes a socket that replaces this.socket, and the
\* socket it replaces is not closed: it goes on reconnecting and its
\* listeners go on writing this.connected
SockConnect ==
    /\ sys = "socket"
    /\ IF socket # Null /\ connected
       THEN /\ lastOp' = "connect:already"
            /\ UNCHANGED sockVars
       ELSE /\ Len(sockLog) < MaxSockLog
            /\ IF socket = Null THEN TRUE ELSE Len(leaked) < MaxLeaked
            /\ socket' = NewSocket
            /\ leaked' = IF socket = Null THEN leaked ELSE Append(leaked, socket)
            /\ sockLog' = Logged("io")
            /\ lastOp' = "connect"
            /\ UNCHANGED <<connected, eventHandlers, lastDelivery>>
    /\ UNCHANGED <<sys, rosterVars, queueSeen, turnVars, storeVars, mockVars, roomVars>>

\* socket s fires 'connect' (and, after a loss, 'reconnect'): connected is
\* set and setupEventHandlers adds its listeners to this.socket, whichever
\* socket fired
SockOnConnect(s) ==
    /\ sys = "socket"
    /\ SocketAlive(s) /\ ~SocketAt(s).up
    /\ IF socket = Null THEN TRUE ELSE socket.listeners < MaxListeners
    /\ Len(sockLog) < MaxSockLog
    /\ connected' = TRUE
    /\ socket' = IF socket = Null THEN Null
                 ELSE IF s = 0
                 THEN [up |-> TRUE, listeners |-> socket.listeners + 1, everUp |-> TRUE]
                 ELSE [socket EXCEPT !.listeners = @ + 1]
    /\ leaked' = IF s = 0 THEN leaked
                 ELSE [leaked EXCEPT ![s] = [@ EXCEPT !.up = TRUE, !.everUp = TRUE]]
    /\ sockLog' = Logged(IF SocketAt(s).everUp THEN "reconnect" ELSE "connect")
    /\ lastOp' = IF SocketAt(s).everUp THEN "on:reconnect" ELSE "on:connect"
    /\ UNCHANGED <<sys, rosterVars, queueSeen, turnVars, storeVars, mockVars, roomVars, eventHandlers,
                   lastDelivery>>

\* socket s fires 'connect_error': an attempt to connect has failed
SockOnConnectError(s) ==
    /\ sys = "socket"
    /\ SocketAlive(s) /\ ~SocketAt(s).up
    /\ connected' = FALSE
    /\ lastOp' = "on:connect_error"
    /\ UNCHANGED <<sys, rosterVars, queueSeen, turnVars, storeVars, mockVars, roomVars, socket, leaked,
                   eventHandlers, lastDelivery, sockLog>>

\* socket s fires 'disconnect': its transport is lost
SockOnDisconnect(s) ==
    /\ sys = "socket"
    /\ SocketAlive(s) /\ SocketAt(s).up
    /\ Len(sockLog) < MaxSockLog
    /\ connected' = FALSE
    /\ socket' = IF s = 0 THEN [socket EXCEPT !.up = FALSE] ELSE socket
    /\ leaked' = IF s = 0 THEN leaked ELSE [leaked EXCEPT ![s] = [@ EXCEPT !.up = FALSE]]
    /\ sockLog' = Logged("disconnect")
    /\ lastOp' = "on:disconnect"
    /\ UNCHANGED <<sys, rosterVars, queueSeen, turnVars, storeVars, mockVars, roomVars, eventHandlers,
                   lastDelivery>>

\* disconnect(), called by SocketProvider: this.socket is closed and
\* forgotten and every handler is dropped; without a socket nothing is done
SockDisconnect ==
    /\ sys = "socket"
    /\ IF socket # Null
       THEN /\ Len(sockLog) < MaxSockLog
            /\ socket' = Null
            /\ connected' = FALSE
            /\ eventHandlers' = <<>>
            /\ sockLog' = Logged("close")
            /\ lastOp' = "disconnect"
            /\ UNCHANGED <<leaked, lastDelivery>>
       ELSE /\ lastOp' = "disconnect:none"
            /\ UNCHANGED sockVars
    /\ UNCHANGED <<sys, rosterVars, queueSeen, turnVars, storeVars, mockVars, roomVars>>

\* on('draft_pick_made', handler)
SockOn(handler) ==
    /\ sys = "socket"
    /\ Len(eventHandlers) < MaxHandlers
    /\ eventHandlers' = Append(eventHandlers, handler)
    /\ lastOp' = "on"
    /\ UNCHANGED <<sys, rosterVars, queueSeen, turnVars, storeVars, mockVars, roomVars, socket, leaked,
                   connected, lastDelivery, sockLog>>

\* off('draft_pick_made', handler): the first entry that is the handler is
\* spliced out; a handler that is not registered changes nothing
SockOff(handler) ==
    /\ sys = "socket"
    /\ eventHandlers' = SpliceHandler(eventHandlers, handler)
    /\ lastOp' = "off"
    /\ UNCHANGED <<sys, rosterVars, queueSeen, turnVars, storeVars, mockVars, roomVars, socket, leaked,
                   connected, lastDelivery, sockLog>>

\* off('draft_pick_made'): with no handler given the event's entry is
\* deleted, and with it every handler
SockOffAll ==
    /\ sys = "socket"
    /\ eventHandlers' = <<>>
    /\ lastOp' = "off:all"
    /\ UNCHANGED <<sys, rosterVars, queueSeen, turnVars, storeVars, mockVars, roomVars, socket, leaked,
                   connected, lastDelivery, sockLog>>

\* the server pushes draft_pick_made to socket s: every listener of that
\* socket runs this.emit('draft_pick_made', data)
SockPickMadeOn(s) ==
    /\ sys = "socket"
    /\ SocketAlive(s) /\ SocketAt(s).up
    /\ Len(sockLog) < MaxSockLog
    /\ lastDelivery' = EmitByListeners(SocketAt(s).listeners, eventHandlers).calls
    /\ eventHandlers' = EmitByListeners(SocketAt(s).listeners, eventHandlers).handlers
    /\ sockLog' = Logged("draft_pick_made")
    /\ lastOp' = "draft_pick_made"
    /\ UNCHANGED <<sys, rosterVars, queueSeen, turnVars, storeVars, mockVars, roomVars, socket, leaked,
                   connected>>

SockPickMade == \E s \in SocketIds : SockPickMadeOn(s)

\* an outbound method that asks only for a socket
CanEmitWithSocket == socket # Null

\* if (this.socket && this.connected), the test of every outbound method
CanEmit == socket # Null /\ connected

\* makeDraftPick(leagueId, playerId, pickNumber): the log records the call
\* of this.socket.emit('draft_pick', ...)
SockMakeDraftPick ==
    /\ sys = "socket"
    /\ Len(sockLog) < MaxSockLog
    /\ IF CanEmit
       THEN /\ sockLog' = Logged("draft_pick")
            /\ lastOp' = "makeDraftPick:emitted"
       ELSE /\ sockLog' = sockLog
            /\ lastOp' = "makeDraftPick:dropped"
    /\ UNCHANGED <<sys, rosterVars, queueSeen, turnVars, storeVars, mockVars, roomVars, socket, leaked,
                   connected, eventHandlers, lastDelivery>>

NextSocket ==
    \/ SockConnect
    \/ \E s \in SocketIds : SockOnConnect(s)
    \/ \E s \in SocketIds : SockOnConnectError(s)
    \/ \E s \in SocketIds : SockOnDisconnect(s)
    \/ SockDisconnect
    \/ \E handler \in Handlers : SockOn(handler)
    \/ \E handler \in Handlers : SockOff(handler)
    \/ SockOffAll
    \/ SockPickMade
    \/ SockMakeDraftPick

SpecSocket == InitSocket /\ [][NextSocket]_vars


(***************************************************************************)
(* RosterDragDrop.  The lineup is a prop; onLineupChange hands the parent   *)
(* the new lineup, which comes back as the prop of the next render.         *)
(***************************************************************************)
\* newLineup.starting_11.length < 11
StartingCap == 11

\* newLineup.bench.length < 4
BenchCap == 4

\* the lineups the parent hands in: each zone full or one short
LineupPayloads ==
    { [ starting_11 |-> [i \in 1..k |-> i],
        bench |-> [i \in 1..m |-> StartingCap + i],
        captain |-> 1, vice_captain |-> 2 ] :
      k \in {StartingCap - 1, StartingCap}, m \in {BenchCap - 1, BenchCap} }

\* the dropIndex argument: absent for a drop on a DropZone, else a card's index
DropIndexes ==
    {[defined |-> FALSE, index |-> 0]} \cup {[defined |-> TRUE, index |-> i] : i \in {0, 3}}

\* array.splice(index, 0, id), index counted from 0
SpliceIn(array, index, id) ==
    SubSeq(array, 1, index) \o <<id>> \o SubSeq(array, index + 1, Len(array))

\* the destination half of handleDrop for one zone's array
AddToZone(array, cap, dropIndex, id) ==
    IF Len(array) < cap
    THEN IF dropIndex.defined /\ dropIndex.index < Len(array)
         THEN SpliceIn(array, dropIndex.index, id)
         ELSE Append(array, id)
    ELSE array

\* array[i] || 0, i counted from 0
AtOrZero(array, i) == IF i < Len(array) THEN array[i + 1] ELSE 0

\* newLineup of handleDrop(e, dropZone, dropIndex)
DroppedLineup(l, drag, dropZone, dropIndex) ==
    LET removedStarting == IF drag.from = "starting"
                           THEN WithoutPlayer(l.starting_11, drag.player)
                           ELSE l.starting_11
        removedBench == IF drag.from = "starting" THEN l.bench
                        ELSE WithoutPlayer(l.bench, drag.player)
        starting == IF dropZone = "starting"
                    THEN AddToZone(removedStarting, StartingCap, dropIndex, drag.player)
                    ELSE removedStarting
        bench == IF dropZone = "starting" THEN removedBench
                 ELSE AddToZone(removedBench, BenchCap, dropIndex, drag.player)
        captain == IF l.captain \in Range(starting) THEN l.captain
                   ELSE AtOrZero(starting, 0)
        vice == IF l.vice_captain \in Range(starting) THEN l.vice_captain
                ELSE IF AtOrZero(starting, 1) # 0 THEN AtOrZero(starting, 1)
                ELSE AtOrZero(starting, 0)
    IN  [starting_11 |-> starting, bench |-> bench,
         captain |-> captain, vice_captain |-> vice]

InitRoster ==
    /\ sys = "roster"
    /\ InitTurnVars
    /\ InitStoreVars
    /\ InitMockVars
    /\ InitRoomVars
    /\ InitSockVars
    /\ lineup \in LineupPayloads
    /\ locked \in BOOLEAN
    /\ dragState = Null
    /\ drops = 0
    /\ lastOp = "init"

\* handleDragStart(e, player, from, index) of a card shown in zone from
RosterDragStart(player, from) ==
    /\ sys = "roster"
    /\ drops < MaxDrops
    /\ player \in Range(IF from = "starting" THEN lineup.starting_11 ELSE lineup.bench)
    /\ IF locked
       THEN /\ lastOp' = "handleDragStart:locked"
            /\ UNCHANGED dragState
       ELSE /\ dragState' = [player |-> player, from |-> from]
            /\ lastOp' = "handleDragStart"
    /\ UNCHANGED <<sys, queueSeen, sockVars, turnVars, storeVars, mockVars, roomVars,
                   lineup, locked, drops>>

\* handleDrop(e, dropZone, dropIndex)
RosterDrop(dropZone, dropIndex) ==
    /\ sys = "roster"
    /\ drops < MaxDrops
    /\ IF dragState = Null
       THEN /\ lastOp' = "handleDrop:nothingDragged"
            /\ UNCHANGED <<lineup, dragState>>
       ELSE /\ lineup' = DroppedLineup(lineup, dragState, dropZone, dropIndex)
            /\ dragState' = Null
            /\ lastOp' = "handleDrop"
    /\ drops' = drops + 1
    /\ UNCHANGED <<sys, queueSeen, sockVars, turnVars, storeVars, mockVars, roomVars, locked>>

\* newLineup of handleCaptainSelect(playerId, isCaptain): the player takes
\* the armband asked for, and when it held the other one the two are swapped
CaptainSelectedLineup(l, playerId, isCaptain) ==
    IF isCaptain
    THEN [l EXCEPT !.vice_captain = IF l.vice_captain = playerId THEN l.captain ELSE @,
                   !.captain = playerId]
    ELSE [l EXCEPT !.captain = IF l.captain = playerId THEN l.vice_captain ELSE @,
                   !.vice_captain = playerId]

\* handleCaptainSelect(playerId, isCaptain), the C and V buttons of a card
\* shown in the starting zone
RosterCaptainSelect(playerId, isCaptain) ==
    /\ sys = "roster"
    /\ playerId \in Range(lineup.starting_11)
    /\ IF locked
       THEN /\ lastOp' = "handleCaptainSelect:locked"
            /\ UNCHANGED lineup
       ELSE /\ lineup' = CaptainSelectedLineup(lineup, playerId, isCaptain)
            /\ lastOp' = "handleCaptainSelect"
    /\ UNCHANGED <<sys, queueSeen, sockVars, turnVars, storeVars, mockVars, roomVars,
                   locked, dragState, drops>>

RosterZones == {"starting", "bench"}

NextRoster ==
    \/ \E player \in 1..(StartingCap + BenchCap), from \in RosterZones :
          RosterDragStart(player, from)
    \/ \E dropZone \in RosterZones, dropIndex \in DropIndexes :
          RosterDrop(dropZone, dropIndex)
    \/ \E playerId \in 1..MaxCaptainChoice, isCaptain \in BOOLEAN :
          RosterCaptainSelect(playerId, isCaptain)

SpecRoster == InitRoster /\ [][NextRoster]_vars


(***************************************************************************)
(* Properties of the turn resolver.                                        *)
(***************************************************************************)
\* the least r with r * n >= p: ceil(p / n), stated without division
LeastRound(p, n) == CHOOSE r \in 1..p : r * n >= p /\ (r - 1) * n < p

\* the index the snake-draft algorithm prescribes for pick p among n teams
SnakeIndex(p, n) ==
    LET round == LeastRound(p, n)
        positionInRound == ((p - 1) % n) + 1
    IN  IF round % 2 = 0 THEN n - positionInRound ELSE positionInRound - 1

\* C1: for every pick >= 1 and team count >= 1 both resolvers return the
\* index of the snake algorithm, within 0..teamCount-1; odd rounds ascend
\* from 0, even rounds descend from teamCount-1, the last pick of a round
\* and the first pick of the next belong to the same team, and with 10
\* teams picks 1, 10, 11, 20, 21 resolve to 0, 9, 9, 0, 0.
C1_SnakeTurnResolver ==
    (trDone /\ trTeams >= 1 /\ trType = "snake") =>
        LET round == LeastRound(trPick, trTeams)
            offset == trPick - (round - 1) * trTeams
        IN  /\ trMock = JsNumber(SnakeIndex(trPick, trTeams))
            /\ trStore = JsNumber(SnakeIndex(trPick, trTeams))
            /\ trMock.value \in 0..(trTeams - 1)
            /\ round % 2 = 1 => trMock.value = offset - 1
            /\ round % 2 = 0 => trMock.value = trTeams - offset
            /\ offset = trTeams => getDraftOrder(trPick + 1, trTeams) = trMock.value
            /\ offset = trTeams =>
                  getCurrentDraftTeamIndex(trPick + 1, trTeams) = trStore.value
            /\ trTeams = 10 =>
                  /\ trPick = 1 => trMock.value = 0
                  /\ trPick = 10 => trMock.value = 9
                  /\ trPick = 11 => trMock.value = 9
                  /\ trPick = 20 => trMock.value = 0
                  /\ trPick = 21 => trMock.value = 0

\* the draft has advanced from pick 10 to pick 11 of a 10-team draft, and
\* both resolvers name team index 9 again
C1_ReversalResolved ==
    /\ trDone /\ trTeams = 10 /\ trPick = 11 /\ trType = "snake"
    /\ trMock = JsNumber(9) /\ trStore = JsNumber(9)
    /\ lastOp = "advance"


(***************************************************************************)
(* Properties of the application store.                                    *)
(***************************************************************************)
\* draftState.queuedPlayers, the store's copy of the personal queue
StoreQueue(st) == st.draftState.queuedPlayers

\* C2: an ADD_DRAFT_PICK whose pick number differs from the store's
\* currentPick leaves currentPick, the available players and the queue as
\* they were and raises a resync request (the store's error field is the
\* only cell through which the reducer could raise one).
C2_OutOfOrderPickRejected ==
    [][\A teamId \in TeamIds, playerId \in Players, pick \in StorePickNumbers :
          ( /\ AddDraftPick(teamId, playerId, pick)
            /\ state.draftState # Null
            /\ pick # state.draftState.currentPick )
          => /\ state'.draftState.currentPick = state.draftState.currentPick
             /\ state'.availablePlayers = state.availablePlayers
             /\ StoreQueue(state') = StoreQueue(state)
             /\ state'.error # Null]_vars

\* C3: an ADD_DRAFT_PICK whose pick number equals currentPick appends
\* exactly that one pick to the pick list, removes the player from the
\* available players, advances currentPick by exactly 1 and removes the
\* player from the queue.
C3_InOrderPickApplied ==
    [][\A teamId \in TeamIds, playerId \in Players, pick \in StorePickNumbers :
          ( /\ AddDraftPick(teamId, playerId, pick)
            /\ state.draftState # Null
            /\ pick = state.draftState.currentPick )
          => /\ Len(FlattenBoard(state'.draftState.draftBoard))
                   = Len(FlattenBoard(state.draftState.draftBoard)) + 1
             /\ \E i \in 1..Len(FlattenBoard(state'.draftState.draftBoard)) :
                   /\ FlattenBoard(state'.draftState.draftBoard)[i].player_id = playerId
                   /\ FlattenBoard(state'.draftState.draftBoard)[i].pick_number = pick
             /\ ~isPlayerAvailable(playerId, state'.availablePlayers)
             /\ state'.draftState.currentPick = state.draftState.currentPick + 1
             /\ playerId \notin Range(StoreQueue(state'))]_vars

(***************************************************************************)
(* Properties of the draft room's queue.                                   *)
(***************************************************************************)
\* C4: the personal queue never holds a player who is absent from the
\* available players, whatever the interleaving of addToQueue, the user's
\* picks and the picks of other teams.
C4_QueueWithinAvailable ==
    /\ sys = "room" => Range(playerQueue) \subseteq roomAvailable
    /\ sys = "mock" => \A p \in Range(userQueue) : availablePlayers[p]

\* C5: when another team drafts a player of the local user's queue, the
\* queue becomes the old queue without that player, the rest in order.
C5_QueuePurgedOnOtherPick ==
    [][\A playerId \in Players :
          (RoomOtherPickMade(playerId) /\ playerId \in Range(playerQueue))
          => playerQueue' = WithoutPlayer(playerQueue, playerId)]_vars

(***************************************************************************)
(* Properties of pick submission.                                          *)
(***************************************************************************)
\* C6: handleUserDraftPick and autoPickFromQueue, run while it is not the
\* local user's turn, change nothing of the draft or the queue.
C6_NotMyTurnIsNoOp ==
    [][( /\ ~isUserTurn
         /\ \/ \E playerId \in Players : UserDraftPick(playerId)
            \/ AutoPickFromQueue )
       => UNCHANGED mockVars]_vars

\* the Draft button was pressed while a CPU team was on the clock
C6_RefusedOffTurn ==
    /\ lastOp = "handleUserDraftPick:rejected"
    /\ isActive /\ currentTeamIndex # 0 /\ ~isUserTurn

\* the pick records of team t for pick number k
PickRecords(picks, t, k) ==
    {i \in 1..Len(picks) : picks[i].team_id = t /\ picks[i].pick_number = k}

\* C7: of two submissions made for the same turn before the component
\* renders again, the second is rejected: the two calls together add at most
\* one pick record, and the local user's team never holds two pick records
\* for one pick number.
C7_SecondSubmitRejected ==
    /\ [][(\E first, second \in Players : CallHandleUserDraftPickTwice(first, second))
          => Len(draftPicks') <= Len(draftPicks) + 1]_vars
    /\ [](sys = "mock" =>
            \A k \in 1..(TeamCount * league.roster_size) :
                Cardinality(PickRecords(draftPicks, 0, k)) <= 1)

\* C8: a submission on the local user's turn for a player who is flagged
\* unavailable is refused: it adds no pick record and changes no team and
\* no player's availability.
C8_UnavailablePlayerRefused ==
    [][( /\ ~UserPickRefused
         /\ \E playerId \in Players :
               /\ ~availablePlayers[playerId]
               /\ CallHandleUserDraftPick(playerId) )
       => UNCHANGED <<draftPicks, mockTeams, availablePlayers, currentPick>>]_vars

(***************************************************************************)
(* Properties of the mock draft's books.                                   *)
(***************************************************************************)
\* the players a pick of the list names
PickedPlayers(picks) == {picks[i].player_id : i \in 1..Len(picks)}

\* C9: a player is flagged available if and only if no pick names them.
C9_AvailableIsAllMinusPicked ==
    sys = "mock" =>
        \A p \in Players : availablePlayers[p] <=> p \notin PickedPlayers(draftPicks)

\* C10: a player appears in at most one pick of the session.
C10_PlayerPickedOnce ==
    sys = "mock" =>
        \A i, j \in 1..Len(draftPicks) :
            draftPicks[i].player_id = draftPicks[j].player_id => i = j


\* the pick numbers a pick list carries
PickNumbers(picks) == {picks[i].pick_number : i \in 1..Len(picks)}

\* C11: the pick numbers of the pick list are pairwise distinct and are
\* exactly 1..n, n the number of picks made, within 1..totalPicks.
C11_PickNumbersGapFree ==
    sys = "mock" =>
        /\ \A i, j \in 1..Len(draftPicks) :
              draftPicks[i].pick_number = draftPicks[j].pick_number => i = j
        /\ PickNumbers(draftPicks) = 1..Len(draftPicks)
        /\ Len(draftPicks) <= TeamCount * league.roster_size


(***************************************************************************)
(* Properties of the draft status.                                         *)
(***************************************************************************)
\* the picks a draft state provides for: rounds of the board x teams
StoreTotalPicks(st) == Len(st.draftState.draftBoard) * TeamLengthOrOne(st)

\* the status a DraftState stands for: it carries isActive only, so a
\* draft that is not running is scheduled before its first pick, completed
\* past its last one and paused in between
StoreStatus(st) ==
    IF st.draftState.isActive THEN "active"
    ELSE IF st.draftState.currentPick > StoreTotalPicks(st) THEN "completed"
    ELSE IF st.draftState.currentPick = 1 THEN "scheduled"
    ELSE "paused"

\* the status changes the state machine allows
AllowedStatusChanges ==
    { <<"scheduled", "active">>, <<"active", "paused">>,
      <<"paused", "active">>, <<"active", "completed">> }

\* C12: a status change outside scheduled->active, active->paused,
\* paused->active and active->completed is rejected: the status stays as
\* it was and the inconsistency is reported.
C12_StatusChangeValidated ==
    [][\A payload \in DraftStatePayloads :
          LET asked == StoreStatus(ReduceSetDraftState(state, payload))
          IN  ( /\ SetDraftStateTo(payload)
                /\ state.draftState # Null
                /\ asked # StoreStatus(state)
                /\ <<StoreStatus(state), asked>> \notin AllowedStatusChanges )
              => /\ StoreStatus(state') = StoreStatus(state)
                 /\ state'.error # Null]_vars


(***************************************************************************)
(* Auto-dispatch.  What runs without the user: the timers of the mock      *)
(* draft and the server's answers to a request.  A button press is never   *)
(* bound to happen.                                                        *)
(***************************************************************************)
FairnessDraft ==
    /\ WF_vars(\E i \in 1..MaxTimers : CpuTimerFires(i))
    /\ WF_vars(\E i \in 1..MaxTimers : CpuPicks(i))
    /\ WF_vars(RoomOwnPickMade)
    /\ WF_vars(RoomMakePickSucceeds)

SpecDraftLive == InitDraft /\ [][NextDraft]_vars /\ FairnessDraft

\* the requests sent for pick number k
RequestsFor(k) == {i \in 1..Len(roomRequests) : roomRequests[i].pick = k}

\* C13: once a pick has made it the local user's turn while the queue is
\* non-empty, the head of the queue is submitted for that pick number
\* without further ado, and only once.
C13_QueueHeadAutoSubmitted ==
    /\ \A k \in 1..RoomTotalPicks :
          ( /\ sys = "room" /\ lastOp = "pickMade:other"
            /\ isMyTurn /\ roomPick = k /\ Len(playerQueue) > 0 )
          ~> (RequestsFor(k) # {})
    /\ \A k \in 1..(MaxMockTeams * MaxRosterSize) :
          ( /\ sys = "mock" /\ lastOp = "handleUserDraftPick:drafted"
            /\ isUserTurn /\ currentPick = k /\ Len(userQueue) > 0 )
          ~> (PickRecords(draftPicks, 0, k) # {} \/ ~isActive)
    /\ [](sys = "mock" =>
            \A k \in 1..(MaxMockTeams * MaxRosterSize) :
                Cardinality(PickRecords(draftPicks, 0, k)) <= 1)


(***************************************************************************)
(* Properties of the push transport.                                       *)
(***************************************************************************)
\* C14: a pick event handed to the application after a reconnect is
\* preceded, since that reconnect, by a re-fetch of the draft snapshot.
C14_RefetchAfterReconnect ==
    ( /\ sys = "socket" /\ lastOp = "draft_pick_made"
      /\ lastDelivery # <<>> )
    => \A j \in 1..Len(sockLog) :
          sockLog[j] = "reconnect"
          => \E k \in (j + 1)..Len(sockLog) : sockLog[k] = "refetch"


(***************************************************************************)
(* Snapshot and replay in the store.                                       *)
(***************************************************************************)
\* the store after a snapshot is loaded: SET_DRAFT_STATE and SET_AVAILABLE_PLAYERS
LoadSnapshot(st, draft, players) ==
    ReduceSetAvailablePlayers(ReduceSetDraftState(st, draft), players)

\* the store after the pick-made events are applied one after the other
RECURSIVE Replay(_, _)
Replay(st, events) ==
    IF events = <<>> THEN st
    ELSE Replay(ReduceAddDraftPick(st, Head(events).team_id,
                                   Head(events).player_id,
                                   Head(events).pick_number),
                Tail(events))

\* the snapshot of a draft about to begin, with the queue the store holds
FirstSnapshot(st) ==
    [ isActive |-> TRUE, currentPick |-> 1, currentRound |-> 1,
      isMyTurn |-> TRUE, availablePlayers |-> Players,
      draftBoard |-> [r \in 1..StoreRounds |-> <<>>],
      queuedPlayers |-> st.draftState.queuedPlayers ]

\* the snapshot of the draft after the events: the picks on the board, the
\* pick after the last one, and the players nobody has picked
LastSnapshot(st, events) ==
    [ FirstSnapshot(st) EXCEPT
        !.currentPick = Len(events) + 1,
        !.draftBoard = st.draftState.draftBoard ]

PlayersLeft(events) ==
    SelectSeq(AllPlayersPayload, LAMBDA p : p.id \notin PickedPlayers(events))

\* C15: a store that was loaded with the first snapshot and then fed the
\* pick events 1..n in order holds the same current pick, pick list and
\* available players as a store loaded with the snapshot taken after them.
C15_ReplayEqualsSnapshot ==
    ( /\ sys = "store" /\ state.draftState # Null
      /\ \A i \in 1..Len(StoreBoardPicks) : StoreBoardPicks[i].pick_number = i
      /\ LET replayed == Replay(LoadSnapshot(state, FirstSnapshot(state),
                                             AllPlayersPayload),
                                StoreBoardPicks)
         IN  /\ replayed.draftState = state.draftState
             /\ replayed.availablePlayers = state.availablePlayers )
    => LET loaded == LoadSnapshot(state, LastSnapshot(state, StoreBoardPicks),
                                  PlayersLeft(StoreBoardPicks))
       IN  /\ state.draftState.currentPick = loaded.draftState.currentPick
           /\ state.draftState.draftBoard = loaded.draftState.draftBoard
           /\ state.availablePlayers = loaded.availablePlayers


(***************************************************************************)
(* Properties of the queue operations.                                     *)
(***************************************************************************)
\* C16: the personal queue never holds a player twice, whatever the
\* sequence of enqueue, remove and reorder calls, two enqueue calls made
\* from the same render included.
C16_QueueHasNoDuplicates ==
    sys = "queue" =>
        \A i, j \in 1..Len(playerQueue) : playerQueue[i] = playerQueue[j] => i = j

\* the positions of the queue that hold the player
PositionsOf(queue, playerId) == {i \in 1..Len(queue) : queue[i] = playerId}

\* the queue with the entries at i and i + 1 exchanged
SwappedAt(queue, i) ==
    [j \in 1..Len(queue) |->
        IF j = i THEN queue[i + 1] ELSE IF j = i + 1 THEN queue[i] ELSE queue[j]]

\* how often a player occurs in a queue
Occurrences(queue, playerId) == Cardinality(PositionsOf(queue, playerId))

\* C17: moveInQueue exchanges the entry with its neighbour in the given
\* direction and leaves the rest in place; first-and-up, last-and-down and
\* a player who is not queued leave the queue as it is; the entries and
\* the length never change.
C17_MoveSwapsNeighbours ==
    [][\A playerId \in Players, direction \in {"up", "down"} :
          QueueMove(playerId, direction)
          => LET at == PositionsOf(playerQueue, playerId)
                 first == IF at = {} THEN 0
                          ELSE CHOOSE i \in at : \A j \in at : i <= j
             IN  /\ Len(playerQueue') = Len(playerQueue)
                 /\ \A q \in Players :
                       Occurrences(playerQueue', q) = Occurrences(playerQueue, q)
                 /\ first = 0 => playerQueue' = playerQueue
                 /\ (first = 1 /\ direction = "up") => playerQueue' = playerQueue
                 /\ (first = Len(playerQueue) /\ direction = "down")
                       => playerQueue' = playerQueue
                 /\ (first > 1 /\ direction = "up")
                       => playerQueue' = SwappedAt(playerQueue, first - 1)
                 /\ (first # 0 /\ first < Len(playerQueue) /\ direction = "down")
                       => playerQueue' = SwappedAt(playerQueue, first)]_vars

\* a queue of three whose middle entry has just been moved to the front
C17_MovedMiddleUp ==
    /\ sys = "queue" /\ lastOp = "moveInQueue"
    /\ playerQueue = <<2, 1, 3>> /\ queueSeen = <<1, 2, 3>>


\* ---------------------------------------------------------------------
\* C18: configuration errors are never silently defaulted: resolving a
\* turn with teamCount = 0, or with a draft type that is neither snake nor
\* linear, fails with an error; neither resolver returns a value (a team
\* index, NaN or null) for it.
RecognizedDraftTypes == {"snake", "linear"}

C18_ConfigurationErrorFails ==
    (trDone /\ (trTeams = 0 \/ trType \notin RecognizedDraftTypes)) =>
        /\ trMock.kind = "thrown"
        /\ trStore.kind = "thrown"

\* ---------------------------------------------------------------------
\* C19: for a linear draft the team on the clock for pick p is index
\* (p - 1) mod teamCount in every round, with no reversal on even rounds,
\* from both resolvers.
C19_LinearOrderRepeats ==
    (trDone /\ trTeams >= 1 /\ trType = "linear") =>
        /\ trMock = JsNumber((trPick - 1) % trTeams)
        /\ trStore = JsNumber((trPick - 1) % trTeams)


\* ---------------------------------------------------------------------
\* C20: in every reachable state of a store that holds a league and a
\* draft, currentPick lies in 1..totalPicks + 1, where totalPicks is the
\* number of rounds times the number of teams.
C20_CurrentPickInRange ==
    (state.draftState # Null /\ state.currentLeague # Null) =>
        state.draftState.currentPick \in 1..(StoreTotalPicks(state) + 1)

\* ---------------------------------------------------------------------
\* C21: in every reachable state of the mock draft the team on the clock
\* is the snake index of the current pick among the teams, and isUserTurn
\* holds exactly when that index is the user's (0) in a running draft.
C21_TurnFollowsCurrentPick ==
    sys = "mock" =>
        /\ currentTeamIndex = SnakeIndex(currentPick, TeamCount)
        /\ isUserTurn <=>
              (SnakeIndex(currentPick, TeamCount) = 0 /\ isActive /\ ~isDraftComplete)

\* a CPU team is on the clock after the user's pick
C21_CpuTeamOnTheClock ==
    /\ sys = "mock" /\ lastOp = "handleUserDraftPick:drafted"
    /\ currentPick = 2 /\ TeamCount = 2 /\ currentTeamIndex = 1

\* ---------------------------------------------------------------------
\* the pick that mirrors pick p one round later among n teams: the same
\* distance from the turn between the two rounds
MirroredPick(p, n) == 2 * LeastRound(p, n) * n + 1 - p

\* C22 (amended): for every snake draft and every pick p the resolvers'
\* output for p equals their output for the mirrored pick one round later,
\* which is pick 2 * round(p) * teamCount + 1 - p (teamCount * 2 + 1 - p
\* for a pick of the first round).
C22_MirroredPickSameTeam ==
    (trDone /\ trTeams >= 1 /\ trType = "snake") =>
        /\ MirroredPick(trPick, trTeams) > trPick
        /\ LeastRound(MirroredPick(trPick, trTeams), trTeams)
              = LeastRound(trPick, trTeams) + 1
        /\ JsNumber(getDraftOrder(MirroredPick(trPick, trTeams), trTeams)) = trMock
        /\ JsNumber(getCurrentDraftTeamIndex(MirroredPick(trPick, trTeams), trTeams))
              = trStore
        /\ LeastRound(trPick, trTeams) = 1 =>
              MirroredPick(trPick, trTeams) = trTeams * 2 + 1 - trPick

\* pick 3 of 10 teams and its mirror, pick 18, belong to team 2
C22_ThirdPickMirrored ==
    /\ trDone /\ trType = "snake" /\ trTeams = 10 /\ trPick = 3
    /\ MirroredPick(trPick, trTeams) = 18
    /\ trMock = JsNumber(2) /\ getDraftOrder(18, 10) = 2

\* C22 as stated: the output for pick p equals the output for pick
\* teamCount * 2 - p, wherever that is a pick number.
C22_MirrorAsStated ==
    (trDone /\ trTeams >= 1 /\ trType = "snake" /\ trTeams * 2 - trPick >= 1) =>
        JsNumber(getDraftOrder(trTeams * 2 - trPick, trTeams)) = trMock

\* ---------------------------------------------------------------------
\* C23: a server push event that arrives on this.socket is handed to each
\* handler registered with on() exactly once, however often a socket has
\* fired 'connect' since connect() was called (handlers that just return).
C23_PushDeliveredOnce ==
    [][ ( /\ SockPickMadeOn(0)
          /\ \A i \in 1..Len(eventHandlers) : HandlerKind(eventHandlers[i]) = "returns" )
        => lastDelivery' = eventHandlers ]_vars

\* ---------------------------------------------------------------------
\* C26: one dispatch of an event calls every handler registered at that
\* moment exactly once, in registration order, even if a handler throws or
\* removes itself with off() during the dispatch.
C26_DispatchCallsEveryHandler ==
    [][ \A s \in SocketIds :
            (SockPickMadeOn(s) /\ SocketAt(s).listeners = 1)
            => lastDelivery' = eventHandlers ]_vars

\* ---------------------------------------------------------------------
\* how many draft_pick messages have gone out to the server
RECURSIVE EmittedPicks(_)
EmittedPicks(log) ==
    IF log = <<>> THEN 0
    ELSE (IF Head(log) = "draft_pick" THEN 1 ELSE 0) + EmittedPicks(Tail(log))

\* C27: makeDraftPick sends one message when a socket exists and connected
\* is true; otherwise the call changes nothing in the service, and no later
\* step (a reconnect among them) sends a message for it.
C27_OutboundOnlyWhileConnected ==
    [][ /\ SockMakeDraftPick =>
            IF socket # Null /\ connected
            THEN /\ sockLog' = Append(sockLog, "draft_pick")
                 /\ lastOp' = "makeDraftPick:emitted"
            ELSE /\ UNCHANGED sockVars
                 /\ lastOp' = "makeDraftPick:dropped"
        /\ EmittedPicks(sockLog') # EmittedPicks(sockLog) =>
             /\ SockMakeDraftPick
             /\ socket # Null /\ connected
             /\ EmittedPicks(sockLog') = EmittedPicks(sockLog) + 1 ]_vars

\* a call made after the transport was lost has been dropped
C27_DroppedWhileDisconnected ==
    /\ sys = "socket" /\ lastOp = "makeDraftPick:dropped"
    /\ socket # Null /\ socket.everUp /\ ~connected
    /\ EmittedPicks(sockLog) = 0

\* ---------------------------------------------------------------------
\* C24: from resetMockDraft until the next startMockDraft the pick list is
\* empty, every player is available and currentPick is 1, whatever timers
\* fire in between: while the draft is idle and not complete, no step other
\* than startMockDraft changes them.
MockIsReset ==
    /\ draftPicks = <<>>
    /\ \A p \in Players : availablePlayers[p]
    /\ currentPick = 1

C24_ResetSurvivesStaleTimer ==
    [][ (sys = "mock" /\ ~isActive /\ ~isDraftComplete /\ MockIsReset /\ ~StartMockDraft)
        => MockIsReset' ]_vars

(***************************************************************************)
(* A mock draft run to its end: the draft is never reset, every timer      *)
(* fires, and the user picks whenever the pick is theirs.                  *)
(***************************************************************************)
\* the user presses Draft on some listed player and the pick is made
UserPicksOnTurn ==
    \E playerId \in Players : UserDraftPick(playerId) /\ ~UserPickRefused

NextMockRun ==
    \/ StartMockDraft
    \/ \E playerId \in Players : UserDraftPick(playerId)
    \/ \E playerId \in Players : AddToQueue(playerId)
    \/ \E playerId \in Players : RemoveFromQueue(playerId)
    \/ AutoPickFromQueue
    \/ \E i \in 1..MaxTimers : CpuTimerFires(i)
    \/ \E i \in 1..MaxTimers : CpuPicks(i)

FairnessMockRun ==
    /\ WF_vars(\E i \in 1..MaxTimers : CpuTimerFires(i))
    /\ WF_vars(\E i \in 1..MaxTimers : CpuPicks(i))
    /\ WF_vars(UserPicksOnTurn)

SpecMockRun == InitMock /\ [][NextMockRun]_vars /\ FairnessMockRun

\* a draft is running in a league with no more picks than players
StartedWithEnoughPlayers ==
    sys = "mock" /\ isActive /\ TeamCount * league.roster_size <= NumPlayers

\* C25: a mock draft that has been started with at least totalPicks players
\* eventually reaches isDraftComplete.
C25_DraftCompletes == StartedWithEnoughPlayers ~> isDraftComplete

\* ---------------------------------------------------------------------
\* C28: for every pick >= 1 and team count >= 1 of a snake draft,
\* getDraftOrder, the index selectors.getCurrentDraftTeam computes and the
\* column in which DraftGrid shows the pick are the same index.
C28_AgreeForEveryPick ==
    (trDone /\ trTeams >= 1 /\ trType = "snake") =>
        /\ trMock.kind = "number"
        /\ trStore = trMock
        /\ trGrid = trMock

\* C28, for the picks the grid has a cell for: for every pick of
\* 1..teams * totalRounds of a snake draft the two resolvers and the grid's
\* column are the same index; a later pick has no column in the grid while
\* both resolvers still name one and the same team.
C28_ThreeResolversAgree ==
    (trDone /\ trTeams >= 1 /\ trType = "snake") =>
        /\ trMock.kind = "number"
        /\ trStore = trMock
        /\ IF trPick <= trTeams * trRoster THEN trGrid = trMock
                                           ELSE trGrid = JsAbsent

\* pick 11 of 10 teams and at least two rounds: all three name the last column
C28_TurnOfRoundTwoAgreed ==
    /\ trDone /\ trType = "snake" /\ trTeams = 10 /\ trPick = 11
    /\ trRoster >= 2
    /\ trGrid = JsNumber(9) /\ trStore = JsNumber(9) /\ trMock = JsNumber(9)

\* ---------------------------------------------------------------------
\* the players of a lineup, starters then bench
LineupPlayers(l) == l.starting_11 \o l.bench

\* C29: handleDrop keeps the multiset of player ids in starting_11 plus
\* bench, and a drop from one zone onto the other, full zone leaves both
\* lists as they were.
C29_DropKeepsEveryPlayer ==
    [][ \A dropZone \in RosterZones, dropIndex \in DropIndexes :
          (RosterDrop(dropZone, dropIndex) /\ dragState # Null) =>
             /\ \A p \in 1..(StartingCap + BenchCap) :
                   Occurrences(LineupPlayers(lineup'), p)
                      = Occurrences(LineupPlayers(lineup), p)
             /\ ( /\ dragState.from # dropZone
                  /\ Len(IF dropZone = "starting" THEN lineup.starting_11
                         ELSE lineup.bench)
                        = (IF dropZone = "starting" THEN StartingCap ELSE BenchCap) )
                => /\ lineup'.starting_11 = lineup.starting_11
                   /\ lineup'.bench = lineup.bench ]_vars

====
